---- MODULE Spec2Model ----
(***************************************************************************)
(* A model of backend_python/server.py (AutoFormFiller RAG backend).       *)
(*                                                                         *)
(* Text is a sequence of one-character strings.  The index (documents,     *)
(* embeddings, vector_db_initialized) is process-wide state shared by the  *)
(* request handlers, which Flask runs on separate threads; a handler is    *)
(* therefore split into one step per access to that shared state.          *)
(***************************************************************************)
EXTENDS Integers, Sequences, FiniteSets, TLC

VARIABLES
    \* ---- the index (server.py:86-89) and its cache file
    encoder, documents, embeddings, vector_db_initialized, cache,
    \* ---- load_vector_db_cache: what it returned, and the index it found
    l_result, l_before,
    \* ---- update_vector_db, one request at a time
    rpc, r_files, r_texts, r_before, r_result, r_failed, r_count,
    \* ---- query, one request at a time
    qpc, q_req, q_ndocs, q_vec, q_top, q_scores, q_emb, q_docs, q_context, q_gen,
    q_resp,
    \* ---- chunk_text as a stepwise loop
    c_text, c_size, c_overlap, c_start, c_chunks, c_pc, c_steps,
    \* ---- the similarity search of query, on its own
    s_matrix, s_query, s_top, s_pc,
    \* ---- the accepted-answer log (Knowledge_Base/AcceptedAnswers.txt)
    log_file, log_saved, log_last, log_prev,
    \* ---- the save_accepted_answer requests under way, one per thread
    savers

indexVars   == <<encoder, documents, embeddings, vector_db_initialized, cache>>
loadVars    == <<l_result, l_before>>
rebuildVars == <<rpc, r_files, r_texts, r_before, r_result, r_failed, r_count>>
queryVars   == <<qpc, q_req, q_ndocs, q_vec, q_top, q_scores, q_emb, q_docs, q_context,
                 q_gen, q_resp>>
chunkVars   == <<c_text, c_size, c_overlap, c_start, c_chunks, c_pc, c_steps>>
searchVars  == <<s_matrix, s_query, s_top, s_pc>>
logVars     == <<log_file, log_saved, log_last, log_prev, savers>>
vars == <<indexVars, loadVars, rebuildVars, queryVars, chunkVars, searchVars, logVars>>

(***************************************************************************)
(* Program constants                                                       *)
(***************************************************************************)
CHUNK_SIZE    == 1000
CHUNK_OVERLAP == 200
TOP_K         == 3

(***************************************************************************)
(* Bounds of the model                                                     *)
(***************************************************************************)
MaxTextLen == 4     \* longest text given to chunk_text on its own
MaxSize    == 3     \* largest chunk_size given to chunk_text on its own
MaxSteps   == 6     \* most passes of chunk_text's loop that are followed
MaxRows    == 4     \* most rows of a matrix searched on its own
MaxRebuilds == 1    \* most update_vector_db requests in a run
MaxLog     == 2     \* most blocks appended to the accepted-answer log
MaxSavers  == 2     \* most save_accepted_answer requests handled at once

(***************************************************************************)
(* Strings                                                                 *)
(***************************************************************************)
Min(a, b) == IF a < b THEN a ELSE b

IsSpace(c) == c \in {" ", "\n"}

\* str.lower(), on the letters the model's texts use
LowerChar(c) ==
    CASE c = "N" -> "n"
      [] c = "E" -> "e"
      [] c = "A" -> "a"
      [] OTHER   -> c

Lower(s) == [i \in 1..Len(s) |-> LowerChar(s[i])]

\* Python's  needle in hay
Contains(hay, needle) ==
    \E i \in 0..(Len(hay) - Len(needle)) :
        SubSeq(hay, i + 1, i + Len(needle)) = needle

\* a slice bound as Python reads it: a negative one counts from the end
SliceBound(n, len) ==
    IF n < 0 THEN (IF len + n < 0 THEN 0 ELSE len + n) ELSE Min(n, len)

\* Python's  text[start:end], with 0-based offsets
Slice(text, start, end) ==
    SubSeq(text, SliceBound(start, Len(text)) + 1, SliceBound(end, Len(text)))

\* str.strip()
Strip(s) ==
    LET keep == {i \in 1..Len(s) : ~IsSpace(s[i])}
    IN  IF keep = {} THEN <<>>
        ELSE LET lo == CHOOSE i \in keep : \A j \in keep : i <= j
                 hi == CHOOSE i \in keep : \A j \in keep : j <= i
             IN  SubSeq(s, lo, hi)

RECURSIVE Join(_, _)
\* sep.join(parts)
Join(sep, parts) ==
    IF parts = <<>> THEN <<>>
    ELSE IF Len(parts) = 1 THEN parts[1]
    ELSE parts[1] \o sep \o Join(sep, Tail(parts))

(***************************************************************************)
(* chunk_text (server.py:138-152)                                          *)
(***************************************************************************)
\* one pass of the loop body: the window's trimmed text, kept when not empty
ChunkAppend(chunks, text, start, size) ==
    LET end   == Min(start + size, Len(text))
        chunk == Strip(Slice(text, start, end))
    IN  IF chunk # <<>> THEN Append(chunks, chunk) ELSE chunks

\* the next window start
ChunkAdvance(start, size, overlap) == start + (size - overlap)

RECURSIVE ChunkLoop(_, _, _, _, _)
ChunkLoop(text, size, overlap, start, chunks) ==
    IF start < Len(text)
    THEN ChunkLoop(text, size, overlap, ChunkAdvance(start, size, overlap),
                   ChunkAppend(chunks, text, start, size))
    ELSE chunks

\* chunk_text(text, chunk_size, overlap), for overlap < chunk_size
chunk_text(text, size, overlap) == ChunkLoop(text, size, overlap, 0, <<>>)

(***************************************************************************)
(* The embedding model (SentenceTransformer.encode) and L2 normalisation.  *)
(* A vector is a pair of integers with one non-zero component, so that its *)
(* norm is an integer and the division of server.py:285/352 is exact.      *)
(***************************************************************************)
Abs(x) == IF x < 0 THEN -x ELSE x

\* model.encode of one text: some fixed function of the text
Embed(text) ==
    IF Contains(text, <<"a">>) THEN <<2, 0>>
    ELSE IF Contains(text, <<"b">>) THEN <<0, 2>>
    ELSE <<0, -2>>

\* np.linalg.norm of a row
Norm(v) == Abs(v[1]) + Abs(v[2])

\* row / norm
NormalizeRow(v) == <<v[1] \div Norm(v), v[2] \div Norm(v)>>

\* np.dot of two vectors
Dot(u, v) == u[1] * v[1] + u[2] * v[2]

\* The global `embeddings`: None, the 1-d empty array that encode([]) gives,
\* or a matrix with one row per text.
NoEmbeddings    == [kind |-> "none",    rows |-> <<>>]
Empty1D         == [kind |-> "empty1d", rows |-> <<>>]
Matrix(rows)    == [kind |-> "matrix",  rows |-> rows]

\* model.encode(all_texts, convert_to_numpy=True)  (server.py:282)
EncodeBatch(texts) ==
    IF texts = <<>> THEN Empty1D
    ELSE Matrix([i \in 1..Len(texts) |-> Embed(texts[i])])

\* embeddings / np.linalg.norm(embeddings, axis=1, keepdims=True) raises on
\* an array without a second axis  (server.py:285)
NormalizeRaises(emb) == emb.kind # "matrix"

NormalizeBatch(emb) ==
    Matrix([i \in 1..Len(emb.rows) |-> NormalizeRow(emb.rows[i])])

(***************************************************************************)
(* The knowledge base directory                                            *)
(***************************************************************************)
FileNames == {"a.txt", "b.txt", "c.txt", "d.txt", "blank.txt", "bad.pdf"}

\* extract_text_from_file raises on a file it cannot read (server.py:124-135)
ExtractRaises(f) == f = "bad.pdf"

FileText(f) ==
    CASE f = "a.txt"     -> <<"a">>
      [] f = "b.txt"     -> <<"b">>
      [] f = "c.txt"     -> <<"a", " ", "b">>
      [] f = "d.txt"     -> <<"c">>
      [] f = "blank.txt" -> <<" ", "\n">>
      [] OTHER           -> <<>>

\* the listings KNOWLEDGE_BASE_PATH.glob('*') may give, after the suffix filter
KnowledgeBases ==
    { <<>>,
      <<"blank.txt">>,
      <<"a.txt">>,
      <<"bad.pdf", "b.txt">>,
      <<"a.txt", "b.txt", "c.txt", "d.txt">> }

\* the dicts update_vector_db appends for one file (server.py:268-275)
FileDocs(f, chunks) ==
    [i \in 1..Len(chunks) |->
        [content |-> chunks[i], source |-> f,
         chunkIndex |-> i - 1, totalChunks |-> Len(chunks)]]

(***************************************************************************)
(* The cache file vector_db/cache.pkl                                      *)
(***************************************************************************)
CacheAbsent  == [kind |-> "absent",  documents |-> <<>>, embeddings |-> NoEmbeddings]
CacheCorrupt == [kind |-> "corrupt", documents |-> <<>>, embeddings |-> NoEmbeddings]
\* a pickle that lacks the 'embeddings' key
CacheNoEmbeddings(docs) ==
    [kind |-> "no_embeddings", documents |-> docs, embeddings |-> NoEmbeddings]
CacheOf(docs, emb) == [kind |-> "ok", documents |-> docs, embeddings |-> emb]

DocsOfA == FileDocs("a.txt", chunk_text(FileText("a.txt"), CHUNK_SIZE, CHUNK_OVERLAP))

\* what an earlier run of the server may have left on disk
InitialCaches ==
    { CacheAbsent, CacheCorrupt,
      CacheNoEmbeddings(DocsOfA),
      CacheOf(<<>>, NoEmbeddings),
      CacheOf(DocsOfA, NormalizeBatch(EncodeBatch(<<FileText("a.txt")>>))) }

\* the live snapshot
Live == <<documents, embeddings, vector_db_initialized>>

(***************************************************************************)
(* Initial state: the module-level assignments of server.py:86-89          *)
(***************************************************************************)
NoReq  == [query |-> <<>>, fieldContext |-> <<>>, partialInput |-> <<>>]
NoGen  == [answer |-> "", branch |-> "none", raised |-> FALSE, llm_calls |-> 0,
           service |-> "", invoke_ok |-> FALSE]
NoResp == [status |-> 0, answer |-> "", error |-> FALSE, source |-> "",
           confidence |-> 0]

IndexInit ==
    /\ encoder = "None"
    /\ documents = <<>>
    /\ embeddings = NoEmbeddings
    /\ vector_db_initialized = FALSE

\* load_vector_db_cache has not been called
LoadIdle ==
    /\ l_result = "none"
    /\ l_before = <<<<>>, NoEmbeddings, FALSE>>

RebuildIdle ==
    /\ r_files = <<>>
    /\ r_texts = <<>>
    /\ r_before = <<<<>>, NoEmbeddings, FALSE>>
    /\ r_result = "none"
    /\ r_failed = FALSE
    /\ r_count = 0

QueryIdle ==
    /\ qpc = "idle"
    /\ q_req = NoReq
    /\ q_ndocs = 0
    /\ q_vec = <<0, 0>>
    /\ q_top = <<>>
    /\ q_scores = <<>>
    /\ q_emb = NoEmbeddings
    /\ q_docs = <<>>
    /\ q_context = <<>>
    /\ q_gen = NoGen
    /\ q_resp = NoResp

ChunkIdle ==
    /\ c_text = <<>>
    /\ c_size = 1
    /\ c_overlap = 0
    /\ c_start = 0
    /\ c_chunks = <<>>
    /\ c_pc = "off"
    /\ c_steps = 0

SearchIdle ==
    /\ s_matrix = <<>>
    /\ s_query = <<0, 0>>
    /\ s_top = <<>>
    /\ s_pc = "off"

NoSave == [op |-> "none", field |-> <<>>, answer |-> <<>>, outcome |-> "none"]

\* the threads that handle save_accepted_answer requests
Savers == 1..MaxSavers

\* a thread with no request
SaverIdle == [pc |-> "idle", field |-> <<>>, answer |-> <<>>, hint |-> <<>>]

LogIdle ==
    /\ log_file = <<>>
    /\ log_saved = <<>>
    /\ log_last = NoSave
    /\ log_prev = NoSave
    /\ savers = [t \in Savers |-> SaverIdle]

Init ==
    /\ IndexInit
    /\ cache \in InitialCaches
    /\ rpc = "boot"
    /\ LoadIdle
    /\ RebuildIdle
    /\ QueryIdle
    /\ ChunkIdle
    /\ SearchIdle
    /\ LogIdle

(***************************************************************************)
(* load_vector_db_cache (server.py:155-176), called once before app.run    *)
(***************************************************************************)
LoadCache ==
    /\ rpc = "boot"
    /\ rpc' = "idle"
    /\ l_before' = Live
    /\ CASE cache.kind = "ok" ->
              /\ documents' = cache.documents
              /\ embeddings' = cache.embeddings
              /\ vector_db_initialized' = (Len(cache.documents) > 0)
              /\ l_result' = "True"
         [] cache.kind = "no_embeddings" ->
              \* cache['documents'] is assigned before cache['embeddings'] raises
              /\ documents' = cache.documents
              /\ UNCHANGED <<embeddings, vector_db_initialized>>
              /\ l_result' = "False"
         [] OTHER ->
              \* no file, or open / pickle.load / cache['documents'] raises
              /\ UNCHANGED <<documents, embeddings, vector_db_initialized>>
              /\ l_result' = "False"
    /\ UNCHANGED <<encoder, cache, r_files, r_texts, r_before, r_result,
                   r_failed, r_count, queryVars, chunkVars, searchVars, logVars>>

(***************************************************************************)
(* update_vector_db (server.py:220-304)                                    *)
(***************************************************************************)
\* a failure anywhere in the try block ends the request with a 500
RebuildFails ==
    /\ rpc' = "idle"
    /\ r_result' = "error"
    /\ r_failed' = TRUE

\* the request goes on to its next statement
RebuildGoes(pc) ==
    /\ rpc' = pc
    /\ UNCHANGED <<r_result, r_failed>>

\* the request ends with a 200
RebuildSucceeds ==
    /\ rpc' = "idle"
    /\ r_result' = "ok"
    /\ UNCHANGED r_failed

\* lines 229-235, 247: the directory listing
RebuildStart(files) ==
    /\ rpc = "idle"
    /\ r_count < MaxRebuilds
    /\ r_count' = r_count + 1
    /\ r_before' = Live
    /\ r_files' = files
    /\ r_texts' = <<>>
    /\ r_result' = "none"
    /\ UNCHANGED r_failed
    /\ rpc' = IF files = <<>> THEN "clear_docs" ELSE "load_model"
    /\ UNCHANGED <<indexVars, queryVars, chunkVars, searchVars, logVars, loadVars>>

\* line 237
RebuildClearDocs ==
    /\ rpc = "clear_docs"
    /\ documents' = <<>>
    /\ RebuildGoes("clear_emb")
    /\ UNCHANGED <<encoder, embeddings, vector_db_initialized, cache,
                   r_files, r_texts, r_before, r_count,
                   queryVars, chunkVars, searchVars, logVars, loadVars>>

\* line 238
RebuildClearEmb ==
    /\ rpc = "clear_emb"
    /\ embeddings' = NoEmbeddings
    /\ RebuildGoes("clear_init")
    /\ UNCHANGED <<encoder, documents, vector_db_initialized, cache,
                   r_files, r_texts, r_before, r_count,
                   queryVars, chunkVars, searchVars, logVars, loadVars>>

\* line 239
RebuildClearInit ==
    /\ rpc = "clear_init"
    /\ vector_db_initialized' = FALSE
    /\ RebuildGoes("save_empty")
    /\ UNCHANGED <<encoder, documents, embeddings, cache,
                   r_files, r_texts, r_before, r_count,
                   queryVars, chunkVars, searchVars, logVars, loadVars>>

\* save_vector_db_cache (server.py:179-194): the file is opened for writing
\* (truncated) and the pickle dumped; a failure leaves it as it was (mkdir or
\* open failed) or cut short
SaveOk     == cache' = CacheOf(documents, embeddings)
SaveRaises == cache' \in {cache, CacheCorrupt}

\* line 240-245
RebuildSaveEmpty ==
    /\ rpc = "save_empty"
    /\ \/ SaveOk /\ RebuildSucceeds
       \/ SaveRaises /\ RebuildFails
    /\ UNCHANGED <<encoder, documents, embeddings, vector_db_initialized,
                   r_files, r_texts, r_before, r_count,
                   queryVars, chunkVars, searchVars, logVars, loadVars>>

\* load_embedding_model (server.py:92-99): the first call builds the model,
\* which can fail; later calls return it
LoadModelCanRaise == encoder = "None"

\* line 250
RebuildLoadModel ==
    /\ rpc = "load_model"
    /\ \/ encoder' = "model" /\ RebuildGoes("reset_docs")
       \/ LoadModelCanRaise /\ UNCHANGED encoder /\ RebuildFails
    /\ UNCHANGED <<documents, embeddings, vector_db_initialized, cache,
                   r_files, r_texts, r_before, r_count,
                   queryVars, chunkVars, searchVars, logVars, loadVars>>

\* lines 253-254
RebuildResetDocs ==
    /\ rpc = "reset_docs"
    /\ documents' = <<>>
    /\ r_texts' = <<>>
    /\ RebuildGoes("files")
    /\ UNCHANGED <<encoder, embeddings, vector_db_initialized, cache,
                   r_files, r_before, r_count,
                   queryVars, chunkVars, searchVars, logVars, loadVars>>

\* lines 256-278, one file: a file that cannot be read is skipped
RebuildProcessFile ==
    /\ rpc = "files"
    /\ r_files # <<>>
    /\ LET f      == Head(r_files)
           chunks == chunk_text(FileText(f), CHUNK_SIZE, CHUNK_OVERLAP)
       IN  IF ExtractRaises(f)
           THEN UNCHANGED <<documents, r_texts>>
           ELSE /\ documents' = documents \o FileDocs(f, chunks)
                /\ r_texts' = r_texts \o chunks
    /\ r_files' = Tail(r_files)
    /\ UNCHANGED <<encoder, embeddings, vector_db_initialized, cache,
                   rpc, r_before, r_result, r_failed, r_count,
                   queryVars, chunkVars, searchVars, logVars, loadVars>>

\* line 282: the raw matrix is assigned to the global
RebuildEncode ==
    /\ rpc = "files"
    /\ r_files = <<>>
    /\ \/ /\ embeddings' = EncodeBatch(r_texts)
          /\ RebuildGoes("normalize")
       \/ UNCHANGED embeddings /\ RebuildFails
    /\ UNCHANGED <<encoder, documents, vector_db_initialized, cache,
                   r_files, r_texts, r_before, r_count,
                   queryVars, chunkVars, searchVars, logVars, loadVars>>

\* line 285
RebuildNormalize ==
    /\ rpc = "normalize"
    /\ IF NormalizeRaises(embeddings)
       THEN UNCHANGED embeddings /\ RebuildFails
       ELSE /\ embeddings' = NormalizeBatch(embeddings)
            /\ RebuildGoes("save")
    /\ UNCHANGED <<encoder, documents, vector_db_initialized, cache,
                   r_files, r_texts, r_before, r_count,
                   queryVars, chunkVars, searchVars, logVars, loadVars>>

\* line 291
RebuildSave ==
    /\ rpc = "save"
    /\ \/ SaveOk /\ RebuildGoes("set_init")
       \/ SaveRaises /\ RebuildFails
    /\ UNCHANGED <<encoder, documents, embeddings, vector_db_initialized,
                   r_files, r_texts, r_before, r_count,
                   queryVars, chunkVars, searchVars, logVars, loadVars>>

\* lines 293-300
RebuildSetInit ==
    /\ rpc = "set_init"
    /\ vector_db_initialized' = TRUE
    /\ RebuildSucceeds
    /\ UNCHANGED <<encoder, documents, embeddings, cache,
                   r_files, r_texts, r_before, r_count,
                   queryVars, chunkVars, searchVars, logVars, loadVars>>

Rebuild ==
    \/ \E files \in KnowledgeBases : RebuildStart(files)
    \/ RebuildClearDocs
    \/ RebuildClearEmb
    \/ RebuildClearInit
    \/ RebuildSaveEmpty
    \/ RebuildLoadModel
    \/ RebuildResetDocs
    \/ RebuildProcessFile
    \/ RebuildEncode
    \/ RebuildNormalize
    \/ RebuildSave
    \/ RebuildSetInit

(***************************************************************************)
(* The words the handlers look for, and the requests of the model          *)
(***************************************************************************)
W_name      == <<"n","a","m","e">>
W_email     == <<"e","m","a","i","l">>
W_phone     == <<"p","h","o","n","e">>
W_mobile    == <<"m","o","b","i","l","e">>
W_contact   == <<"c","o","n","t","a","c","t">>
W_address   == <<"a","d","d","r","e","s","s">>
W_called    == <<"c","a","l","l","e","d">>
W_who       == <<"w","h","o">>
W_your_name == <<"y","o","u","r"," ","n","a","m","e">>
W_my_name   == <<"m","y"," ","n","a","m","e">>
W_mail      == <<"m","a","i","l">>
W_number    == <<"n","u","m","b","e","r">>
W_website   == <<"w","e","b","s","i","t","e">>
W_link      == <<"l","i","n","k">>
W_github    == <<"g","i","t","h","u","b">>
W_linkedin  == <<"l","i","n","k","e","d","i","n">>
W_portfolio == <<"p","o","r","t","f","o","l","i","o">>
W_url       == <<"u","r","l">>

\* server.py:329-331
PersonalKeywords == {W_name, W_email, W_phone, W_mobile, W_contact, W_address}

\* server.py:466, 494, 506, 512
NameKeywords  == {W_name, W_called, W_who, W_your_name, W_my_name}
EmailKeywords == {W_email, W_mail}
PhoneKeywords == {W_phone, W_mobile, W_contact, W_number}
UrlKeywords   == {W_website, W_link, W_github, W_linkedin, W_portfolio, W_url}

\* any(keyword in text for keyword in keywords)
AnyIn(keywords, text) == \E k \in keywords : Contains(text, k)

Q_Name == <<"N","a","m","e">>
Q_city == <<"c","i","t","y">>
Q_Email == <<"E","m","a","i","l">>

QueryTexts    == {<<>>, Q_Name, Q_city}
FieldContexts == {<<>>, Q_Email}

Requests ==
    [query : QueryTexts, fieldContext : FieldContexts, partialInput : {<<>>}]

(***************************************************************************)
(* check_llama_available (server.py:408-414): ollama.list() raises when    *)
(* the service is down, and the bare except turns that into False.  The    *)
(* service is outside the program: each call sees it in some state.        *)
(***************************************************************************)
OllamaStates == {"ready", "nomodel", "down"}

CheckLlamaAvailable(service) ==
    IF service = "down" THEN FALSE ELSE service = "ready"

(***************************************************************************)
(* generate_answer (server.py:417-557).  An answer text is represented by  *)
(* what produced it: the LLM's output, or the extraction rule chosen.      *)
(***************************************************************************)
\* the branch of the if/elif chain of lines 466-512 that is taken
FallbackCategory(query, field_context) ==
    LET query_lower == Lower(query)
    IN  IF AnyIn(NameKeywords, query_lower) THEN "name"
        ELSE IF AnyIn(EmailKeywords, query_lower) THEN "email"
        ELSE IF AnyIn(PhoneKeywords, query_lower) THEN "phone"
        ELSE IF AnyIn(UrlKeywords, query_lower \o <<" ">> \o Lower(field_context))
             THEN "url"
        ELSE "generic"

\* lines 461-557: the fallback never raises on strings
FallbackAnswer(query, context, field_context, partial_input) ==
    [answer     |-> FallbackCategory(query, field_context),
     branch     |-> "fallback",
     raised     |-> FALSE]

\* generate_answer without the try/except of lines 422-459: a failed
\* ollama.generate reaches the caller
GenerateAnswerNoCatch(query, context, field_context, partial_input, service, invoke_ok) ==
    LET available == CheckLlamaAvailable(service)
        fallback  == FallbackAnswer(query, context, field_context, partial_input)
    IN  [answer     |-> IF available THEN "llm-output" ELSE fallback.answer,
         branch     |-> IF available THEN "llm" ELSE "fallback",
         raised     |-> available /\ ~invoke_ok,
         llm_calls  |-> IF available THEN 1 ELSE 0,
         service    |-> service,
         invoke_ok  |-> invoke_ok]

\* lines 421-459: service is what ollama.list() shows, invoke_ok whether
\* ollama.generate returns
GenerateAnswer(query, context, field_context, partial_input, service, invoke_ok) ==
    LET available == CheckLlamaAvailable(service)
        calls     == IF available THEN 1 ELSE 0
        result    == IF available /\ invoke_ok
                     THEN [answer |-> "llm-output", branch |-> "llm", raised |-> FALSE]
                     ELSE FallbackAnswer(query, context, field_context, partial_input)
    IN  [answer     |-> result.answer,
         branch     |-> result.branch,
         raised     |-> result.raised,
         llm_calls  |-> calls,
         service    |-> service,
         invoke_ok  |-> invoke_ok]

(***************************************************************************)
(* query (server.py:307-405)                                               *)
(***************************************************************************)
\* jsonify(...) of the handler's return statements
Response(status, answer, error, source, confidence) ==
    [status |-> status, answer |-> answer, error |-> error, source |-> source,
     confidence |-> confidence]

\* lines 403-405
QueryError == Response(500, "Not in DB", TRUE, "", 0)

QueryReturns(resp) ==
    /\ q_resp' = resp
    /\ qpc' = "done"

\* lines 326-331
IsPersonalInfo(req) ==
    AnyIn(PersonalKeywords, Lower(req.query) \o <<" ">> \o Lower(req.fieldContext))

\* line 348
EnhancedQuery(req) ==
    IF req.fieldContext # <<>>
    THEN req.fieldContext \o <<":", " ">> \o req.query
    ELSE req.query

\* "\n\n".join([doc['content'] for doc in docs])
JoinContents(docs) ==
    Join(<<"\n", "\n">>, [i \in 1..Len(docs) |-> docs[i].content])

\* documents[:3]
FirstThree(docs) == SubSeq(docs, 1, Min(3, Len(docs)))

\* lines 311-323
QueryStart(req) ==
    /\ qpc = "idle"
    /\ rpc # "boot"
    /\ q_req' = req
    /\ q_ndocs' = Len(documents)
    /\ IF req.query = <<>>
       THEN QueryReturns(Response(400, "", TRUE, "", 0))
       ELSE IF ~vector_db_initialized
       THEN QueryReturns(Response(200, "Not in DB", TRUE, "", 0))
       ELSE qpc' = "personal" /\ UNCHANGED q_resp
    /\ UNCHANGED <<indexVars, rebuildVars, q_vec, q_top, q_scores, q_emb,
                   q_docs, q_context, q_gen, chunkVars, searchVars, logVars, loadVars>>

\* lines 326-333: the test  is_personal_info and len(documents) > 0
QueryPersonal ==
    /\ qpc = "personal"
    /\ q_ndocs' = Len(documents)
    /\ qpc' = IF IsPersonalInfo(q_req) /\ Len(documents) > 0
              THEN "header" ELSE "encode"
    /\ UNCHANGED <<indexVars, rebuildVars, q_req, q_vec, q_top, q_scores,
                   q_emb, q_docs, q_context, q_gen, q_resp,
                   chunkVars, searchVars, logVars, loadVars>>

\* lines 335-342
QueryHeader ==
    /\ qpc = "header"
    /\ \E service \in OllamaStates, invoke_ok \in BOOLEAN :
        LET context == JoinContents(FirstThree(documents))
            gen     == GenerateAnswer(q_req.query, context, q_req.fieldContext,
                                      q_req.partialInput, service, invoke_ok)
        IN  /\ q_docs' = documents
            /\ q_context' = context
            /\ q_gen' = gen
            /\ IF gen.raised
               THEN QueryReturns(QueryError)
               ELSE QueryReturns(Response(200, gen.answer, FALSE,
                                          "header-extraction", 1))
    /\ UNCHANGED <<indexVars, rebuildVars, q_req, q_ndocs, q_vec, q_top,
                   q_scores, q_emb, chunkVars, searchVars, logVars, loadVars>>

\* lines 345-352
QueryEncode ==
    /\ qpc = "encode"
    /\ \/ /\ encoder' = "model"
          /\ q_vec' = NormalizeRow(Embed(EnhancedQuery(q_req)))
          /\ qpc' = "dot"
          /\ UNCHANGED q_resp
       \/ /\ LoadModelCanRaise
          /\ QueryReturns(QueryError)
          /\ UNCHANGED <<encoder, q_vec>>
    /\ UNCHANGED <<documents, embeddings, vector_db_initialized, cache,
                   rebuildVars, q_req, q_ndocs, q_top, q_scores, q_emb, q_docs,
                   q_context, q_gen,
                   chunkVars, searchVars, logVars, loadVars>>

(***************************************************************************)
(* The similarity search of query (server.py:354-370)                      *)
(***************************************************************************)
\* np.dot(embeddings, query_embedding)
Similarities(rows, qv) == [i \in 1..Len(rows) |-> Dot(rows[i], qv)]

\* np.argsort(similarities): the default sort is not stable, so equal scores
\* may come in any order
ArgSorts(sims) ==
    LET N == Len(sims)
    IN  { p \in [1..N -> 1..N] :
            /\ \A i, j \in 1..N : i # j => p[i] # p[j]
            /\ \A i \in 1..(N - 1) : sims[p[i]] <= sims[p[i + 1]] }

\* seq[::-1]
Reverse(seq) == [i \in 1..Len(seq) |-> seq[Len(seq) + 1 - i]]

\* np.argsort(similarities)[::-1][:TOP_K]
TopIndices(perm) == SubSeq(Reverse(perm), 1, Min(TOP_K, Len(perm)))

\* similarities[top_indices]
TopScores(sims, top) == [i \in 1..Len(top) |-> sims[top[i]]]

\* lines 355-367
QueryDot ==
    /\ qpc = "dot"
    /\ IF embeddings.kind # "matrix"
       THEN \* np.dot of None, or of a 1-d empty array, raises
            /\ QueryReturns(QueryError)
            /\ UNCHANGED <<q_top, q_scores, q_emb>>
       ELSE LET sims == Similarities(embeddings.rows, q_vec)
            IN  \E perm \in ArgSorts(sims) :
                  /\ q_top' = TopIndices(perm)
                  /\ q_scores' = TopScores(sims, TopIndices(perm))
                  /\ q_emb' = embeddings
                  /\ IF Len(TopIndices(perm)) = 0
                     THEN QueryReturns(Response(200, "Not in DB", FALSE, "", 0))
                     ELSE qpc' = "docs" /\ UNCHANGED q_resp
    /\ UNCHANGED <<indexVars, rebuildVars, q_req, q_ndocs, q_vec, q_docs,
                   q_context, q_gen,
                   chunkVars, searchVars, logVars, loadVars>>

\* lines 370-388: documents[idx] raises when the list is shorter than idx
QueryDocs ==
    /\ qpc = "docs"
    /\ IF \E i \in 1..Len(q_top) : q_top[i] > Len(documents)
       THEN /\ QueryReturns(QueryError)
            /\ UNCHANGED <<q_docs, q_context>>
       ELSE /\ q_docs' = documents
            /\ q_context' = JoinContents([i \in 1..Len(q_top) |-> documents[q_top[i]]])
            /\ qpc' = "gen"
            /\ UNCHANGED q_resp
    /\ UNCHANGED <<indexVars, rebuildVars, q_req, q_ndocs, q_vec, q_top,
                   q_scores, q_emb, q_gen, chunkVars, searchVars, logVars, loadVars>>

\* line 393
QueryGen ==
    /\ qpc = "gen"
    /\ \E service \in OllamaStates, invoke_ok \in BOOLEAN :
        LET gen == GenerateAnswer(q_req.query, q_context, q_req.fieldContext,
                                  q_req.partialInput, service, invoke_ok)
        IN  /\ q_gen' = gen
            /\ IF gen.raised
               THEN QueryReturns(QueryError)
               ELSE qpc' = "respond" /\ UNCHANGED q_resp
    /\ UNCHANGED <<indexVars, rebuildVars, q_req, q_ndocs, q_vec, q_top,
                   q_scores, q_emb, q_docs, q_context,
                   chunkVars, searchVars, logVars, loadVars>>

\* lines 397-401: the source tag comes from a second availability check
QueryRespond ==
    /\ qpc = "respond"
    /\ \E service \in OllamaStates :
         QueryReturns(Response(200, q_gen.answer, FALSE,
                               IF CheckLlamaAvailable(service)
                               THEN "llama-local" ELSE "simple-extraction",
                               q_scores[1]))
    /\ UNCHANGED <<indexVars, rebuildVars, q_req, q_ndocs, q_vec, q_top,
                   q_scores, q_emb, q_docs, q_context, q_gen,
                   chunkVars, searchVars, logVars, loadVars>>

\* the response is sent; the next request may come
QueryFinish ==
    /\ qpc = "done"
    /\ qpc' = "idle"
    /\ q_req' = NoReq
    /\ q_ndocs' = 0
    /\ q_vec' = <<0, 0>>
    /\ q_top' = <<>>
    /\ q_scores' = <<>>
    /\ q_emb' = NoEmbeddings
    /\ q_docs' = <<>>
    /\ q_context' = <<>>
    /\ q_gen' = NoGen
    /\ q_resp' = NoResp
    /\ UNCHANGED <<indexVars, rebuildVars,
                   chunkVars, searchVars, logVars, loadVars>>

Query ==
    \/ \E req \in Requests : QueryStart(req)
    \/ QueryPersonal
    \/ QueryHeader
    \/ QueryEncode
    \/ QueryDot
    \/ QueryDocs
    \/ QueryGen
    \/ QueryRespond
    \/ QueryFinish

Next ==
    \/ LoadCache
    \/ Rebuild
    \/ Query

Spec == Init /\ [][Next]_vars

(***************************************************************************)
(* Properties of the index and of query                                    *)
(***************************************************************************)
\* the matrix update_vector_db builds for a chunk list
EmbeddingsOf(docs) ==
    NormalizeBatch(EncodeBatch([i \in 1..Len(docs) |-> docs[i].content]))

\* a chunk list together with its own embedding matrix
OneSnapshot(docs, emb) == docs # <<>> /\ emb = EmbeddingsOf(docs)

\* C1: while no rebuild has failed, the chunk list and the embedding matrix
\* a query has read (at lines 355 and 375) belong to one snapshot: the list
\* is whole and the matrix is the matrix of that list.
C1_QueryReadsOneSnapshot ==
    (~r_failed /\ qpc \in {"gen", "respond"}) => OneSnapshot(q_docs, q_emb)

\* C2: when a rebuild has ended in failure, the live snapshot is the one
\* that was live when the rebuild began.
C2_FailedRebuildKeepsSnapshot ==
    (rpc = "idle" /\ r_result = "error") => Live = r_before

\* C3: a query with a non-empty text that found no chunks, the corpus still
\* being empty when it answers, answers "Not in DB" without an error field.
C3_EmptyCorpusNotInDB ==
    (qpc = "done" /\ q_req.query # <<>> /\ q_ndocs = 0 /\ documents = <<>>)
        => (q_resp.answer = "Not in DB" /\ ~q_resp.error)

\* C4: a query with a personal-info keyword that found a non-empty chunk
\* list answers from the first three chunks, joined by a blank line, with
\* source header-extraction and confidence 1.
C4_PersonalInfoShortcut ==
    (qpc = "done" /\ q_req.query # <<>> /\ IsPersonalInfo(q_req) /\ q_ndocs > 0)
        => /\ q_resp.source = "header-extraction"
           /\ q_resp.confidence = 1
           /\ q_context = JoinContents(FirstThree(q_docs))

\* C5: generate_answer calls the LLM at most once and never raises; when the
\* model is not listed, the listing fails or the invocation raises, the
\* answer is the fallback extractor's, and the response carries no error.
C5_LlmFailureFallsBack ==
    q_gen.branch # "none" =>
        /\ q_gen.llm_calls <= 1
        /\ ~q_gen.raised
        /\ (q_gen.service # "ready" \/ ~q_gen.invoke_ok) =>
              /\ q_gen.branch = "fallback"
              /\ q_gen.answer = FallbackCategory(q_req.query, q_req.fieldContext)
        /\ qpc = "done" => (q_resp.status = 200 /\ ~q_resp.error
                            /\ q_resp.answer = q_gen.answer)

\* the invocation raised with the model listed, and the query was answered
C5_Witness ==
    /\ qpc = "done"
    /\ q_gen.service = "ready"
    /\ ~q_gen.invoke_ok
    /\ q_gen.branch = "fallback"
    /\ q_gen.llm_calls = 1

\* C6: on the retrieval path the source tag is llama-local exactly when the
\* answer text is the LLM's output.
C6_ProvenanceNamesBranch ==
    (qpc = "done" /\ q_resp.source \in {"llama-local", "simple-extraction"})
        => (q_resp.source = "llama-local" <=> q_gen.branch = "llm")

\* C11: a call of load_vector_db_cache that returns False (no file, a file
\* that cannot be read or unpickled, a pickle that lacks a key) leaves
\* documents, embeddings and vector_db_initialized as it found them.
C11_FailedLoadKeepsIndex ==
    (l_result = "False" /\ r_count = 0) => Live = l_before

\* len(embeddings), with no matrix counted as no rows
Rows(emb) == IF emb.kind = "matrix" THEN Len(emb.rows) ELSE 0

\* C12: whenever no rebuild is under way (the cache load and every rebuild
\* so far have completed, whatever their outcome), documents has as many
\* chunks as embeddings has rows.
C12_ChunksMatchRows ==
    rpc = "idle" => Len(documents) = Rows(embeddings)

\* C14: an answer of the fallback extractor comes from the rule of the first
\* category, in the order name, email, phone, url, generic, that has a
\* keyword in the lower-cased query followed by the field context; a keyword
\* of the field context counts as one of the query does.
C14_FallbackClassifiesQueryAndField ==
    q_gen.branch = "fallback" =>
        LET text == Lower(q_req.query \o <<" ">> \o q_req.fieldContext)
        IN  q_gen.answer =
                IF AnyIn(NameKeywords, text) THEN "name"
                ELSE IF AnyIn(EmailKeywords, text) THEN "email"
                ELSE IF AnyIn(PhoneKeywords, text) THEN "phone"
                ELSE IF AnyIn(UrlKeywords, text) THEN "url"
                ELSE "generic"

(***************************************************************************)
(* chunk_text on its own, one pass of its loop per step                    *)
(***************************************************************************)
RECURSIVE Texts(_, _)
\* the texts of at most n characters over an alphabet
Texts(alphabet, n) ==
    IF n = 0 THEN {<<>>}
    ELSE LET shorter == Texts(alphabet, n - 1)
         IN  shorter \cup {Append(t, c) : t \in shorter, c \in alphabet}

ChunkInit ==
    /\ c_text \in Texts({"a", " "}, MaxTextLen)
    /\ c_size \in 1..MaxSize
    \* the function takes any overlap, also one that is not below the size
    /\ c_overlap \in 0..MaxSize
    /\ c_start = 0
    /\ c_chunks = <<>>
    /\ c_pc = "loop"
    /\ c_steps = 0

\* lines 143-150
ChunkStep ==
    /\ c_pc = "loop"
    /\ c_start < Len(c_text)
    /\ c_steps < MaxSteps
    /\ c_chunks' = ChunkAppend(c_chunks, c_text, c_start, c_size)
    /\ c_start' = ChunkAdvance(c_start, c_size, c_overlap)
    /\ c_steps' = c_steps + 1
    /\ UNCHANGED <<c_text, c_size, c_overlap, c_pc,
                   indexVars, rebuildVars, queryVars, searchVars, logVars, loadVars>>

\* lines 143, 152
ChunkReturn ==
    /\ c_pc = "loop"
    /\ ~(c_start < Len(c_text))
    /\ c_pc' = "done"
    /\ UNCHANGED <<c_text, c_size, c_overlap, c_start, c_chunks, c_steps,
                   indexVars, rebuildVars, queryVars, searchVars, logVars, loadVars>>

\* the server itself stays as it is constructed
ServerOff ==
    /\ IndexInit
    /\ cache = CacheAbsent
    /\ rpc = "boot"
    /\ LoadIdle
    /\ RebuildIdle
    /\ QueryIdle

InitChunk == ServerOff /\ SearchIdle /\ LogIdle /\ ChunkInit

NextChunk ==
    \/ ChunkStep
    \/ ChunkReturn

SpecChunk == InitChunk /\ [][NextChunk]_vars

HasText(text) == \E i \in 1..Len(text) : ~IsSpace(text[i])

\* C8: with 0 < overlap < size, a text shorter than size gives exactly one
\* chunk when it holds a non-whitespace character, and none otherwise.
C8_ShortTextOneChunk ==
    (c_pc = "done" /\ 0 < c_overlap /\ c_overlap < c_size /\ Len(c_text) < c_size)
        => Len(c_chunks) = (IF HasText(c_text) THEN 1 ELSE 0)

\* C13: chunk_text terminates.  With overlap < size the n-th pass of the loop
\* looks at the window that starts at n * (size - overlap), no pass starts
\* at or beyond the end of the text, and the function returns once the start
\* has reached the end; with overlap >= size the call is rejected: it makes
\* no pass of the loop and returns no chunk list.
C13_ChunkTextTerminates ==
    c_pc # "off" =>
        IF c_overlap < c_size
        THEN /\ c_start = c_steps * (c_size - c_overlap)
             /\ c_steps > 0 => c_start - (c_size - c_overlap) < Len(c_text)
             /\ c_pc = "done" => c_start >= Len(c_text)
             /\ c_steps < MaxSteps
        ELSE c_steps = 0 /\ c_pc # "done"

(***************************************************************************)
(* The similarity search on its own                                        *)
(***************************************************************************)
\* the unit vectors of the model
UnitVectors == {<<1, 0>>, <<0, 1>>, <<0, -1>>}

RECURSIVE Matrices(_)
\* the matrices of 1..n rows
Matrices(n) ==
    IF n = 0 THEN {}
    ELSE {<<v>> : v \in UnitVectors}
         \cup Matrices(n - 1)
         \cup {Append(m, v) : m \in Matrices(n - 1), v \in UnitVectors}

SearchInit ==
    /\ s_matrix \in Matrices(MaxRows)
    /\ s_query \in UnitVectors
    /\ s_top = <<>>
    /\ s_pc = "search"

\* lines 355-359
Search ==
    /\ s_pc = "search"
    /\ \E perm \in ArgSorts(Similarities(s_matrix, s_query)) :
         s_top' = TopIndices(perm)
    /\ s_pc' = "done"
    /\ UNCHANGED <<s_matrix, s_query,
                   indexVars, rebuildVars, queryVars, chunkVars, logVars, loadVars>>

InitSearch == ServerOff /\ ChunkIdle /\ LogIdle /\ SearchInit

NextSearch == Search

SpecSearch == InitSearch /\ [][NextSearch]_vars

\* C7: the search returns min(K, N) indices, in non-increasing order of
\* score, and of two chunks with the same score the one with the lower
\* index comes first.
C7_SearchOrder ==
    s_pc = "done" =>
        LET sims == Similarities(s_matrix, s_query)
        IN  /\ Len(s_top) = Min(TOP_K, Len(s_matrix))
            /\ \A i \in 1..(Len(s_top) - 1) :
                  \/ sims[s_top[i]] > sims[s_top[i + 1]]
                  \/ /\ sims[s_top[i]] = sims[s_top[i + 1]]
                     /\ s_top[i] < s_top[i + 1]

(***************************************************************************)
(* The accepted-answer log, Knowledge_Base/AcceptedAnswers.txt             *)
(* (server.py:624-718).  The file is a sequence of symbols: the characters *)
(* of the values written, the literal labels, and RULE, which stands for   *)
(* the run '='*60 that the handlers write and split on.                    *)
(***************************************************************************)
RULE       == "="
L_Field    == "Field: "
L_Hint     == "User Typed (Hint): "
L_Answer   == "Answer: "
L_Date     == "Date: "
NL         == "\n"

RECURSIVE SplitFrom(_, _, _)
\* the pieces of content between occurrences of sep, piece being the one
\* under way
SplitFrom(content, sep, piece) ==
    IF content = <<>> THEN <<piece>>
    ELSE IF Head(content) = sep
         THEN <<piece>> \o SplitFrom(Tail(content), sep, <<>>)
         ELSE SplitFrom(Tail(content), sep, Append(piece, Head(content)))

\* content.split('='*60)
Split(content) == SplitFrom(content, RULE, <<>>)

\* the block of lines 652-658
AcceptedBlock(field_context, partial_input, answer, timestamp) ==
    <<NL, RULE, NL>>
    \o <<L_Field>> \o field_context \o <<NL>>
    \o (IF partial_input # <<>> THEN <<L_Hint>> \o partial_input \o <<NL>> ELSE <<>>)
    \o <<L_Answer>> \o answer \o <<NL>>
    \o <<L_Date>> \o timestamp \o <<NL>>
    \o <<RULE, NL>>

\* the block of lines 703-707
FieldValueBlock(field_context, value, timestamp) ==
    <<NL, RULE, NL>>
    \o <<L_Field>> \o field_context \o <<NL>>
    \o <<L_Answer>> \o value \o <<NL>>
    \o <<L_Date>> \o timestamp \o <<NL>>
    \o <<RULE, NL>>

\* lines 641-648: the test save_accepted_answer makes on the file's content
AcceptedIsDuplicate(content, field_context, answer) ==
    LET entries == Split(content)
    IN  \E i \in 1..Len(entries) :
            /\ Contains(entries[i], <<L_Field>> \o field_context)
            /\ Contains(entries[i], <<L_Answer>> \o answer)

\* lines 689-699: the test save_field_value makes on the file's content
FieldValueIsDuplicate(content, field_context, value) ==
    /\ Contains(content, <<L_Field>> \o field_context)
    /\ Contains(content, <<L_Answer>> \o value)
    /\ LET entries == Split(content)
       IN  \E i \in 1..Len(entries) :
               /\ Contains(entries[i], <<L_Field>> \o field_context)
               /\ Contains(entries[i], value)

\* the values the requests carry
LogFields  == {<<"a">>, <<"a", "b">>}
LogAnswers == {<<>>, <<"a">>, <<"a", "b">>, <<RULE>>}
LogHints   == {<<>>, <<"b">>}
LogTime    == <<"t">>

SaveDone(op, field_context, answer, outcome) ==
    /\ log_last' = [op |-> op, field |-> field_context, answer |-> answer,
                    outcome |-> outcome]
    /\ log_prev' = log_last

\* save_accepted_answer (server.py:624-669)
SaveAcceptedAnswer(field_context, answer, partial_input) ==
    /\ IF answer = <<>>
       THEN /\ SaveDone("save_accepted", field_context, answer, "rejected")
            /\ UNCHANGED <<log_file, log_saved>>
       ELSE IF log_file # <<>> /\ AcceptedIsDuplicate(log_file, field_context, answer)
       THEN /\ SaveDone("save_accepted", field_context, answer, "skipped")
            /\ UNCHANGED <<log_file, log_saved>>
       ELSE /\ Len(log_saved) < MaxLog
            /\ log_file' = log_file \o AcceptedBlock(field_context, partial_input,
                                                     answer, LogTime)
            /\ log_saved' = Append(log_saved,
                                   [field |-> field_context, answer |-> answer])
            /\ SaveDone("save_accepted", field_context, answer, "saved")
    /\ UNCHANGED savers
    /\ UNCHANGED <<indexVars, rebuildVars, queryVars, chunkVars, searchVars, loadVars>>

\* save_field_value (server.py:672-718)
SaveFieldValue(field_context, value) ==
    /\ IF value = <<>>
       THEN /\ SaveDone("save_field_value", field_context, value, "rejected")
            /\ UNCHANGED <<log_file, log_saved>>
       ELSE IF log_file # <<>> /\ FieldValueIsDuplicate(log_file, field_context, value)
       THEN /\ SaveDone("save_field_value", field_context, value, "skipped")
            /\ UNCHANGED <<log_file, log_saved>>
       ELSE /\ Len(log_saved) < MaxLog
            /\ log_file' = log_file \o FieldValueBlock(field_context, value, LogTime)
            /\ log_saved' = Append(log_saved,
                                   [field |-> field_context, answer |-> value])
            /\ SaveDone("save_field_value", field_context, value, "saved")
    /\ UNCHANGED savers
    /\ UNCHANGED <<indexVars, rebuildVars, queryVars, chunkVars, searchVars, loadVars>>

InitLog == ServerOff /\ ChunkIdle /\ SearchIdle /\ LogIdle

NextLog ==
    \/ \E f \in LogFields, a \in LogAnswers, h \in LogHints :
           SaveAcceptedAnswer(f, a, h)
    \/ \E f \in LogFields, v \in LogAnswers : SaveFieldValue(f, v)

SpecLog == InitLog /\ [][NextLog]_vars

\* the blocks of the log written for a pair
BlocksOf(field_context, answer) ==
    {i \in 1..Len(log_saved) :
        log_saved[i] = [field |-> field_context, answer |-> answer]}

\* C9: when save_accepted_answer is called twice in a row with the same
\* field context and answer, the second call appends nothing and the log
\* holds exactly one block for the pair.
C9_SecondSaveAppendsNothing ==
    ( /\ log_last.op = "save_accepted"
      /\ log_prev.op = "save_accepted"
      /\ log_last.answer # <<>>
      /\ log_prev.field = log_last.field
      /\ log_prev.answer = log_last.answer )
        => /\ log_last.outcome = "skipped"
           /\ Cardinality(BlocksOf(log_last.field, log_last.answer)) = 1

\* C10: a save is skipped only when the log holds a block with the same
\* field context and the same answer.
C10_SkippedOnlyIfStored ==
    log_last.outcome = "skipped" => BlocksOf(log_last.field, log_last.answer) # {}

(***************************************************************************)
(* save_accepted_answer handled on several threads at once (Flask serves   *)
(* each request on a thread of its own, and the handler takes no lock).    *)
(* A request reads and tests the file (lines 641-648), and appends its     *)
(* block (lines 651-658) in a later step.                                  *)
(***************************************************************************)
\* the answers of the concurrent requests: those that a request on its own
\* recognises as stored
SaverAnswers == {<<>>, <<"a">>, <<"a", "b">>}

\* lines 628-648: the request is read and the file's content is tested
SaveCheck(t, field_context, answer, partial_input) ==
    /\ savers[t].pc = "idle"
    /\ savers' = [savers EXCEPT ![t] =
          [pc     |-> IF answer = <<>> THEN "rejected"
                      ELSE IF log_file # <<>>
                              /\ AcceptedIsDuplicate(log_file, field_context, answer)
                      THEN "skipped"
                      ELSE "append",
           field  |-> field_context,
           answer |-> answer,
           hint   |-> partial_input]]
    /\ UNCHANGED <<log_file, log_saved, log_last, log_prev>>
    /\ UNCHANGED <<indexVars, rebuildVars, queryVars, chunkVars, searchVars, loadVars>>

\* lines 651-658: the block is appended
SaveAppend(t) ==
    /\ savers[t].pc = "append"
    /\ Len(log_saved) < MaxLog
    /\ log_file' = log_file \o AcceptedBlock(savers[t].field, savers[t].hint,
                                             savers[t].answer, LogTime)
    /\ log_saved' = Append(log_saved,
                           [field |-> savers[t].field, answer |-> savers[t].answer])
    /\ savers' = [savers EXCEPT ![t].pc = "saved"]
    /\ UNCHANGED <<log_last, log_prev>>
    /\ UNCHANGED <<indexVars, rebuildVars, queryVars, chunkVars, searchVars, loadVars>>

\* lines 636, 648, 662-665: the response is sent and the thread is free
SaveReturn(t) ==
    /\ savers[t].pc \in {"rejected", "skipped", "saved"}
    /\ savers' = [savers EXCEPT ![t] = SaverIdle]
    /\ UNCHANGED <<log_file, log_saved, log_last, log_prev>>
    /\ UNCHANGED <<indexVars, rebuildVars, queryVars, chunkVars, searchVars, loadVars>>

InitLogRace == ServerOff /\ ChunkIdle /\ SearchIdle /\ LogIdle

NextLogRace ==
    \/ \E t \in Savers, f \in LogFields, a \in SaverAnswers, h \in LogHints :
           SaveCheck(t, f, a, h)
    \/ \E t \in Savers : SaveAppend(t)
    \/ \E t \in Savers : SaveReturn(t)

SpecLogRace == InitLogRace /\ [][NextLogRace]_vars

\* C15: however the steps of concurrent save_accepted_answer requests are
\* interleaved, the log holds at most one block for a field context and
\* answer.
C15_ConcurrentSavesNoDuplicate ==
    \A i, j \in 1..Len(log_saved) : log_saved[i] = log_saved[j] => i = j

====
